---- MODULE Spec2Model ----
(***************************************************************************)
(* Model of data/shakespeare_char/prepare.py: main() reads a text, keeps   *)
(* the first 40 bytes of its UTF-8 encoding, builds the byte vocabulary,   *)
(* encodes, classifies word boundaries (create_word_boundaries), slices    *)
(* both streams into train/val/test and writes seven output files.         *)
(*                                                                         *)
(* Python positions and codes are 0-based; TLA+ sequences are 1-based, so  *)
(* Python position i is element i+1 of a sequence here.  Codes stay        *)
(* 0-based (they are values, not positions).                               *)
(***************************************************************************)
EXTENDS Integers, Sequences, FiniteSets

VARIABLES
    pc,                     \* the statement group main() is at
    error,                  \* "none", or the exception that ended the run
    data_bytes,             \* data.encode('utf-8'), before the [:40]
    utf8_data,              \* line 65
    utf_bytes,              \* line 69
    utf8_vocab_size,        \* line 70
    byte_to_idx,            \* line 75
    idx_to_byte,            \* line 76
    encoded_data,           \* line 78
    word_boundaries,        \* line 80
    train_data, val_data, test_data,                                   \* 84-86
    train_word_boundaries, val_word_boundaries, test_word_boundaries,  \* 91-93
    meta,                   \* lines 104-108
    files,                  \* the output directory
    out_pos                 \* number of output writes completed (lines 96-110)

vars == <<pc, error, data_bytes, utf8_data, utf_bytes, utf8_vocab_size,
          byte_to_idx, idx_to_byte, encoded_data, word_boundaries,
          train_data, val_data, test_data,
          train_word_boundaries, val_word_boundaries, test_word_boundaries,
          meta, files, out_pos>>

---------------------------------------------------------------------------
(* Bounds of the model. *)

\* texts of at most MaxChars characters are enumerated exhaustively
MaxChars == 3
\* long texts exceed the 40-byte cut of line 65 by at most MaxOver bytes
MaxOver == 2
\* byte strings of at most MaxFnLen bytes are given to create_word_boundaries
MaxFnLen == 3

---------------------------------------------------------------------------
(* Helpers on sequences. *)

Range(s) == { s[i] : i \in 1..Len(s) }

Min(a, b) == IF a < b THEN a ELSE b

MinOf(S) == CHOOSE x \in S : \A y \in S : x <= y

RECURSIVE Rep(_, _)
Rep(s, k) == IF k = 0 THEN <<>> ELSE s \o Rep(s, k - 1)

\* Python s[lo:hi] for 0 <= lo, 0 <= hi
Slice(s, lo, hi) == SubSeq(s, lo + 1, Min(hi, Len(s)))

---------------------------------------------------------------------------
(* Program constants. *)

\* the cut of line 65: data.encode('utf-8')[:40]
TruncLen == 40
\* ord(' '), line 18
ord_space == 32

\* b' \t\n.,!?;:()[]{}"\'' of line 28, as byte values
SpacePunctBytes ==
    {32, 9, 10, 46, 44, 33, 63, 59, 58, 40, 41, 91, 93, 123, 125, 34, 39}

\* the seven outputs in the order main() writes them (lines 96-110)
OutputOrder ==
    << "train.bin", "val.bin", "test.bin",
       "train_word_boundaries.bin", "val_word_boundaries.bin",
       "test_word_boundaries.bin", "meta.pkl" >>

OutputNames == Range(OutputOrder)

---------------------------------------------------------------------------
(* Inputs.  data is a Python str, so data.encode('utf-8') is always        *)
(* well-formed UTF-8: a concatenation of whole characters.  The characters *)
(* used: space, '.', 'a' (one byte each) and U+00E9 (bytes C3 A9).         *)

Chars == { <<32>>, <<46>>, <<97>>, <<195, 169>> }

RECURSIVE Texts(_)
Texts(k) ==
    IF k = 0 THEN { <<>> }
    ELSE Texts(k - 1) \cup { t \o c : t \in Texts(k - 1), c \in Chars }

\* texts around and beyond the 40-byte cut: a run of one repeated character
\* with at most one other character before it and after it
LongTexts ==
    { h \o Rep(c, k) \o t : h \in Texts(1),
                            c \in { <<97>>, <<32>>, <<195, 169>> },
                            k \in 1..(TruncLen + MaxOver),
                            t \in Texts(1) }

Corpora ==
    Texts(MaxChars) \cup
    { t \in LongTexts : TruncLen - 2 <= Len(t) /\ Len(t) <= TruncLen + MaxOver }

\* arbitrary byte strings, for create_word_boundaries called on its own:
\* ASCII space, punctuation, letter; a continuation byte (A9), a lead byte
\* (C3) and a byte above the lead range (F8)
FnBytes == { 32, 46, 97, 169, 195, 248 }

RECURSIVE ByteStrings(_)
ByteStrings(k) ==
    IF k = 0 THEN { <<>> }
    ELSE ByteStrings(k - 1) \cup { Append(s, b) : s \in ByteStrings(k - 1), b \in FnBytes }

---------------------------------------------------------------------------
(* Vocabulary and encoding (lines 69-78). *)

RECURSIVE SortedSeq(_)
SortedSeq(S) ==
    IF S = {} THEN <<>>
    ELSE LET m == MinOf(S) IN <<m>> \o SortedSeq(S \ {m})

\* bytes in order of first occurrence, without duplicates
RECURSIVE FirstOccurrences(_)
FirstOccurrences(s) ==
    IF s = <<>> THEN <<>>
    ELSE LET r == FirstOccurrences(SubSeq(s, 1, Len(s) - 1))
         IN IF s[Len(s)] \in Range(r) THEN r ELSE Append(r, s[Len(s)])

\* a variant of line 69 that forgets to sort
utf_bytes_unsorted(data) == FirstOccurrences(data)

\* line 69: sorted(list(set(utf8_data)))
utf_bytes_of(data) == SortedSeq(Range(data))

\* line 75: {ch: i for i, ch in enumerate(utf_bytes)}
byte_to_idx_of(ub) ==
    [ ch \in Range(ub) |-> (CHOOSE i \in 1..Len(ub) : ub[i] = ch) - 1 ]

\* a variant of line 76 that enumerates the list backwards
idx_to_byte_reversed(ub) == [ i \in 0..(Len(ub) - 1) |-> ub[Len(ub) - i] ]

\* line 76: {i: ch for i, ch in enumerate(utf_bytes)}
idx_to_byte_of(ub) == [ i \in 0..(Len(ub) - 1) |-> ub[i + 1] ]

\* line 78: np.array([byte_to_idx[b] for b in utf8_data], dtype=np.uint16)
encode(data, b2i) == [ k \in 1..Len(data) |-> b2i[data[k]] % 65536 ]

---------------------------------------------------------------------------
(* create_word_boundaries (lines 12-56). *)

\* a variant of lines 22-24 whose second range starts at 128
is_start_of_char_from_128(i2b, byte_idx) ==
    LET byte == i2b[byte_idx]
    IN  (byte < 128) \/ (128 <= byte /\ byte <= 247)

\* lines 22-24
is_start_of_char(i2b, byte_idx) ==
    LET byte == i2b[byte_idx]
    IN  (byte < 128) \/ (192 <= byte /\ byte <= 247)

\* lines 27-28
is_space_or_punct(i2b, byte_idx) == i2b[byte_idx] \in SpacePunctBytes

\* line 19: np.pad(encoded_data[:-1], (1, 0), constant_values=space_idx)
prev_encoded_of(enc, space_idx) ==
    [ k \in 1..Len(enc) |-> IF k = 1 THEN space_idx ELSE enc[k - 1] ]

\* lines 35-46 and 56: the flags, as uint8
boundary_flags(cur, prev, i2b) ==
    [ k \in 1..Len(cur) |->
        IF is_start_of_char(i2b, cur[k])
           /\ (is_space_or_punct(i2b, cur[k]) \/ is_space_or_punct(i2b, prev[k]))
        THEN 1 ELSE 0 ]

\* a variant of lines 18-19 that looks nothing up: the previous byte of
\* position 0 is taken to be a space whatever the vocabulary holds
create_word_boundaries_no_lookup(enc, b2i, i2b) ==
    [ raised |-> FALSE,
      value  |-> [ k \in 1..Len(enc) |->
                    IF is_start_of_char(i2b, enc[k])
                       /\ (is_space_or_punct(i2b, enc[k])
                           \/ (IF k = 1 THEN TRUE
                               ELSE is_space_or_punct(i2b, enc[k - 1])))
                    THEN 1 ELSE 0 ] ]

\* lines 12-56.  byte_to_idx[ord(' ')] on line 18 raises KeyError when the
\* vocabulary holds no space; nothing is returned then.  (An empty
\* encoded_data always takes this branch: its vocabulary is empty, so the
\* vectorized calls of lines 35-41 are never reached with a size-0 array.)
create_word_boundaries(enc, b2i, i2b) ==
    IF ord_space \notin DOMAIN b2i
    THEN [ raised |-> TRUE, value |-> <<>> ]
    ELSE LET space_idx == b2i[ord_space]
             prev_encoded == prev_encoded_of(enc, space_idx)
         IN  [ raised |-> FALSE, value |-> boundary_flags(enc, prev_encoded, i2b) ]

---------------------------------------------------------------------------
(* Splits (lines 83-93). *)

\* a variant of int(n * 0.9) that rounds to nearest instead of truncating
int_n_times_0_9_rounded(n) == (n * 9 + 5) \div 10

\* int(n * 0.9): the double product truncated toward zero.  For every
\* n >= 0 up to 2*10^6 (so for every n <= 40 the run can have) this equals
\* floor(9n/10).
int_n_times_0_9(n) == (n * 9) \div 10

\* int(n * 0.95), likewise equal to floor(19n/20)
int_n_times_0_95(n) == (n * 19) \div 20

\* lines 84 and 91: S[:int(n * 0.9)]
train_slice(S, n) == Slice(S, 0, int_n_times_0_9(n))

\* lines 85 and 92: S[int(n * 0.9):int(n * 0.95)]
val_slice(S, n) == Slice(S, int_n_times_0_9(n), int_n_times_0_95(n))

\* a variant of lines 86 and 93 that starts one position late
test_slice_late(S, n) == Slice(S, int_n_times_0_95(n) + 1, Len(S))

\* lines 86 and 93: S[int(n * 0.95):]
test_slice(S, n) == Slice(S, int_n_times_0_95(n), Len(S))

---------------------------------------------------------------------------
(* The output directory.  A file is absent, or holds some content;         *)
(* complete tells whether the write that produced it ran to its end.       *)

NoFile == [ exists |-> FALSE, complete |-> FALSE, content |-> <<>> ]

WholeFile(c) == [ exists |-> TRUE, complete |-> TRUE, content |-> c ]

\* what a write that fails can leave behind: nothing (the open failed), or
\* a file cut short after any number of elements
PartialFiles(c) ==
    { NoFile } \cup
    { [ exists |-> TRUE, complete |-> FALSE, content |-> SubSeq(c, 1, k) ] :
        k \in 0..Len(c) }

NoMeta == [ vocab_size |-> 0, idx_to_byte |-> <<>>, byte_to_idx |-> <<>> ]

\* the array that the k-th tofile call of lines 96-102 writes
OutArray(k) ==
    CASE k = 1 -> train_data
      [] k = 2 -> val_data
      [] k = 3 -> test_data
      [] k = 4 -> train_word_boundaries
      [] k = 5 -> val_word_boundaries
      [] k = 6 -> test_word_boundaries

NoOutputVisible == \A f \in OutputNames : ~files[f].exists

---------------------------------------------------------------------------
(* main() (lines 59-110) as a state machine. *)

InitRest ==
    /\ error = "none"
    /\ word_boundaries = <<>>
    /\ train_data = <<>> /\ val_data = <<>> /\ test_data = <<>>
    /\ train_word_boundaries = <<>>
    /\ val_word_boundaries = <<>>
    /\ test_word_boundaries = <<>>
    /\ meta = NoMeta
    /\ files = [ f \in OutputNames |-> NoFile ]
    /\ out_pos = 0

Init ==
    /\ pc = "read"
    /\ data_bytes \in Corpora
    /\ utf8_data = <<>>
    /\ utf_bytes = <<>>
    /\ utf8_vocab_size = 0
    /\ byte_to_idx = <<>>
    /\ idx_to_byte = <<>>
    /\ encoded_data = <<>>
    /\ InitRest

\* lines 63-66: read the text, encode it, keep the first 40 bytes
ReadInput ==
    /\ pc = "read" /\ error = "none"
    /\ utf8_data' = Slice(data_bytes, 0, TruncLen)
    /\ pc' = "vocab"
    /\ UNCHANGED <<error, data_bytes, utf_bytes, utf8_vocab_size, byte_to_idx,
                   idx_to_byte, encoded_data, word_boundaries,
                   train_data, val_data, test_data,
                   train_word_boundaries, val_word_boundaries,
                   test_word_boundaries, meta, files, out_pos>>

\* line 63: open() or read() of the input raises
ReadInputFails ==
    /\ pc = "read" /\ error = "none"
    /\ error' = "IOFailure"
    /\ UNCHANGED <<pc, data_bytes, utf8_data, utf_bytes, utf8_vocab_size,
                   byte_to_idx, idx_to_byte, encoded_data, word_boundaries,
                   train_data, val_data, test_data,
                   train_word_boundaries, val_word_boundaries,
                   test_word_boundaries, meta, files, out_pos>>

\* lines 69-76
BuildVocabulary ==
    /\ pc = "vocab" /\ error = "none"
    /\ utf_bytes' = utf_bytes_of(utf8_data)
    /\ utf8_vocab_size' = Len(utf_bytes')
    /\ byte_to_idx' = byte_to_idx_of(utf_bytes')
    /\ idx_to_byte' = idx_to_byte_of(utf_bytes')
    /\ pc' = "encode"
    /\ UNCHANGED <<error, data_bytes, utf8_data, encoded_data, word_boundaries,
                   train_data, val_data, test_data,
                   train_word_boundaries, val_word_boundaries,
                   test_word_boundaries, meta, files, out_pos>>

\* line 78
Encode ==
    /\ pc = "encode" /\ error = "none"
    /\ encoded_data' = encode(utf8_data, byte_to_idx)
    /\ pc' = "classify"
    /\ UNCHANGED <<error, data_bytes, utf8_data, utf_bytes, utf8_vocab_size,
                   byte_to_idx, idx_to_byte, word_boundaries,
                   train_data, val_data, test_data,
                   train_word_boundaries, val_word_boundaries,
                   test_word_boundaries, meta, files, out_pos>>

\* line 80, create_word_boundaries returns
Classify ==
    /\ pc = "classify" /\ error = "none"
    /\ LET r == create_word_boundaries(encoded_data, byte_to_idx, idx_to_byte)
       IN  /\ ~r.raised
           /\ word_boundaries' = r.value
    /\ pc' = "split"
    /\ UNCHANGED <<error, data_bytes, utf8_data, utf_bytes, utf8_vocab_size,
                   byte_to_idx, idx_to_byte, encoded_data,
                   train_data, val_data, test_data,
                   train_word_boundaries, val_word_boundaries,
                   test_word_boundaries, meta, files, out_pos>>

\* line 80, create_word_boundaries raises (line 18); main() does not catch
ClassifyRaises ==
    /\ pc = "classify" /\ error = "none"
    /\ create_word_boundaries(encoded_data, byte_to_idx, idx_to_byte).raised
    /\ error' = "KeyError"
    /\ UNCHANGED <<pc, data_bytes, utf8_data, utf_bytes, utf8_vocab_size,
                   byte_to_idx, idx_to_byte, encoded_data, word_boundaries,
                   train_data, val_data, test_data,
                   train_word_boundaries, val_word_boundaries,
                   test_word_boundaries, meta, files, out_pos>>

\* lines 83-93
Split ==
    /\ pc = "split" /\ error = "none"
    /\ LET n == Len(utf8_data)
       IN  /\ train_data' = train_slice(encoded_data, n)
           /\ val_data' = val_slice(encoded_data, n)
           /\ test_data' = test_slice(encoded_data, n)
           /\ train_word_boundaries' = train_slice(word_boundaries, n)
           /\ val_word_boundaries' = val_slice(word_boundaries, n)
           /\ test_word_boundaries' = test_slice(word_boundaries, n)
    /\ pc' = "write"
    /\ UNCHANGED <<error, data_bytes, utf8_data, utf_bytes, utf8_vocab_size,
                   byte_to_idx, idx_to_byte, encoded_data, word_boundaries,
                   meta, files, out_pos>>

\* lines 96-102: the next tofile call succeeds
WriteArray ==
    /\ pc = "write" /\ error = "none"
    /\ out_pos < 6
    /\ files' = [ files EXCEPT ![OutputOrder[out_pos + 1]] =
                    WholeFile(OutArray(out_pos + 1)) ]
    /\ out_pos' = out_pos + 1
    /\ UNCHANGED <<pc, error, data_bytes, utf8_data, utf_bytes, utf8_vocab_size,
                   byte_to_idx, idx_to_byte, encoded_data, word_boundaries,
                   train_data, val_data, test_data,
                   train_word_boundaries, val_word_boundaries,
                   test_word_boundaries, meta>>

\* lines 96-102: the next tofile call raises; the files already written stay
WriteArrayFails ==
    /\ pc = "write" /\ error = "none"
    /\ out_pos < 6
    /\ \E left \in PartialFiles(OutArray(out_pos + 1)) :
          files' = [ files EXCEPT ![OutputOrder[out_pos + 1]] = left ]
    /\ error' = "IOFailure"
    /\ UNCHANGED <<pc, data_bytes, utf8_data, utf_bytes, utf8_vocab_size,
                   byte_to_idx, idx_to_byte, encoded_data, word_boundaries,
                   train_data, val_data, test_data,
                   train_word_boundaries, val_word_boundaries,
                   test_word_boundaries, meta, out_pos>>

\* lines 104-108: the meta dict
meta_of(vs, i2b, b2i) == [ vocab_size |-> vs, idx_to_byte |-> i2b, byte_to_idx |-> b2i ]

\* lines 104-110: build meta and pickle it
WriteMeta ==
    /\ pc = "write" /\ error = "none"
    /\ out_pos = 6
    /\ meta' = meta_of(utf8_vocab_size, idx_to_byte, byte_to_idx)
    /\ files' = [ files EXCEPT !["meta.pkl"] = WholeFile(<<>>) ]
    /\ out_pos' = 7
    /\ pc' = "done"
    /\ UNCHANGED <<error, data_bytes, utf8_data, utf_bytes, utf8_vocab_size,
                   byte_to_idx, idx_to_byte, encoded_data, word_boundaries,
                   train_data, val_data, test_data,
                   train_word_boundaries, val_word_boundaries,
                   test_word_boundaries>>

\* lines 109-110: open or pickle.dump raises; meta.pkl is missing or cut short
WriteMetaFails ==
    /\ pc = "write" /\ error = "none"
    /\ out_pos = 6
    /\ meta' = meta_of(utf8_vocab_size, idx_to_byte, byte_to_idx)
    /\ \E left \in PartialFiles(<<>>) :
          files' = [ files EXCEPT !["meta.pkl"] = left ]
    /\ error' = "IOFailure"
    /\ UNCHANGED <<pc, data_bytes, utf8_data, utf_bytes, utf8_vocab_size,
                   byte_to_idx, idx_to_byte, encoded_data, word_boundaries,
                   train_data, val_data, test_data,
                   train_word_boundaries, val_word_boundaries,
                   test_word_boundaries, out_pos>>

Next ==
    \/ ReadInput
    \/ ReadInputFails
    \/ BuildVocabulary
    \/ Encode
    \/ Classify
    \/ ClassifyRaises
    \/ Split
    \/ WriteArray
    \/ WriteArrayFails
    \/ WriteMeta
    \/ WriteMetaFails

Spec == Init /\ [][Next]_vars

---------------------------------------------------------------------------
(* create_word_boundaries on its own: the caller hands it any byte string  *)
(* already encoded with the vocabulary built from it.                      *)

InitCWB ==
    /\ pc = "classify"
    /\ data_bytes \in ByteStrings(MaxFnLen)
    /\ utf8_data = data_bytes
    /\ utf_bytes = utf_bytes_of(utf8_data)
    /\ utf8_vocab_size = Len(utf_bytes)
    /\ byte_to_idx = byte_to_idx_of(utf_bytes)
    /\ idx_to_byte = idx_to_byte_of(utf_bytes)
    /\ encoded_data = encode(utf8_data, byte_to_idx)
    /\ InitRest

NextCWB ==
    \/ Classify
    \/ ClassifyRaises

SpecCWB == InitCWB /\ [][NextCWB]_vars

---------------------------------------------------------------------------
(* Properties. *)

\* create_word_boundaries was called and has returned or raised
ClassifierEnded ==
    \/ pc \in {"split", "write", "done"}
    \/ (pc = "classify" /\ error = "KeyError")

\* create_word_boundaries has returned a boundary sequence
BoundariesProduced == pc \in {"split", "write", "done"}

SlicesComputed == pc \in {"write", "done"}

IsLeadByte(b) == b < 128 \/ (192 <= b /\ b <= 247)

IsContinuationByte(b) == 128 <= b /\ b <= 191

IsSpaceOrPunctByte(b) ==
    b \in {32, 9, 10, 46, 44, 33, 63, 59, 58, 40, 41, 91, 93, 123, 125, 34, 39}

\* the raw byte before 1-based position k; a space before the first
PrevByte(k) == IF k = 1 THEN 32 ELSE utf8_data[k - 1]

ExpectedFlag(k) ==
    IF IsLeadByte(utf8_data[k])
       /\ (IsSpaceOrPunctByte(utf8_data[k]) \/ IsSpaceOrPunctByte(PrevByte(k)))
    THEN 1 ELSE 0

\* C1: for every corpus, once create_word_boundaries has been called, every
\* position of the encoded sequence has a flag, and the flag is 1 exactly
\* when the raw byte there is a lead byte and it, or the byte before it (a
\* space before position 0), is space or punctuation.
C1_BoundaryRule ==
    ClassifierEnded =>
        /\ BoundariesProduced
        /\ Len(word_boundaries) = Len(encoded_data)
        /\ \A k \in 1..Len(encoded_data) : word_boundaries[k] = ExpectedFlag(k)

\* C2: for every non-empty corpus, the call of create_word_boundaries
\* produces a boundary sequence whose first flag is 1.
C2_PositionZeroFlagged ==
    (utf8_data # <<>> /\ ClassifierEnded) =>
        /\ BoundariesProduced
        /\ Len(word_boundaries) >= 1
        /\ word_boundaries[1] = 1

\* tr, va, te are consecutive, non-overlapping position ranges covering S
IsPartition(tr, va, te, S) ==
    /\ Len(tr) + Len(va) + Len(te) = Len(S)
    /\ tr \o va \o te = S
    /\ tr = SubSeq(S, 1, Len(tr))
    /\ va = SubSeq(S, Len(tr) + 1, Len(tr) + Len(va))
    /\ te = SubSeq(S, Len(tr) + Len(va) + 1, Len(S))

\* C3: the train, val and test slices of the code stream and of the
\* boundary stream are consecutive position ranges of the stream: their
\* lengths add up to the stream's length, none overlaps another, and their
\* concatenation is the stream.
C3_SplitsPartition ==
    SlicesComputed =>
        /\ IsPartition(train_data, val_data, test_data, encoded_data)
        /\ IsPartition(train_word_boundaries, val_word_boundaries,
                       test_word_boundaries, word_boundaries)

\* a run that ended with three non-empty slices of both streams
C3_Witness ==
    /\ pc = "done"
    /\ train_data # <<>> /\ val_data # <<>> /\ test_data # <<>>
    /\ train_word_boundaries # <<>>
    /\ val_word_boundaries # <<>>
    /\ test_word_boundaries # <<>>

\* floor(n * num / den), stated by its defining inequalities
FloorOf(n, num, den) ==
    CHOOSE p \in 0..n : den * p <= num * n /\ num * n < den * (p + 1)

IsOrderedBijection(b2i, i2b, size, bytes) ==
    /\ size = Cardinality(bytes)
    /\ DOMAIN b2i = bytes
    /\ DOMAIN i2b = 0..(size - 1)
    /\ \A b \in bytes : b2i[b] \in 0..(size - 1) /\ i2b[b2i[b]] = b
    /\ \A i \in 0..(size - 1) : i2b[i] \in bytes /\ b2i[i2b[i]] = i
    /\ \A a \in bytes : \A b \in bytes : a < b => b2i[a] < b2i[b]

C7_LengthsAgree ==
    ClassifierEnded =>
        /\ BoundariesProduced
        /\ Len(word_boundaries) = Len(encoded_data)
        /\ Len(encoded_data) = Len(data_bytes)

\* C8: a run that has failed leaves no output file of its own visible (the
\* program keeps no marker that would flag a partial set as incomplete).
C8_NoSilentPartialOutput == error # "none" => NoOutputVisible

\* C9: on a zero-length corpus the run gets no further than the call of
\* create_word_boundaries, which can only raise, and no output file exists.
C9_EmptyCorpusFailsFast ==
    data_bytes = <<>> =>
        /\ pc \in {"read", "vocab", "encode", "classify"}
        /\ NoOutputVisible
        /\ (pc = "classify" /\ error = "none") =>
              (ENABLED ClassifyRaises /\ ~ENABLED Classify)

\* the empty corpus, stopped by the KeyError of line 18, no file written
C9_Witness ==
    /\ data_bytes = <<>>
    /\ pc = "classify"
    /\ error = "KeyError"
    /\ NoOutputVisible

\* C10: in every boundary sequence create_word_boundaries returns, a
\* position holding a continuation byte (0x80..0xBF) has flag 0, whatever
\* the byte before it.
C10_ContinuationNeverFlagged ==
    BoundariesProduced =>
        /\ Len(word_boundaries) = Len(utf8_data)
        /\ \A k \in 1..Len(utf8_data) :
              IsContinuationByte(utf8_data[k]) => word_boundaries[k] = 0

\* a returned sequence with a continuation byte at position 0 or after
\* space/punctuation, flagged 0, one of them after a real space/punctuation byte
C10_Witness ==
    /\ BoundariesProduced
    /\ \E k \in 1..Len(utf8_data) :
          /\ IsContinuationByte(utf8_data[k])
          /\ IsSpaceOrPunctByte(PrevByte(k))
          /\ word_boundaries[k] = 0
    /\ \E k \in 2..Len(utf8_data) :
          /\ IsContinuationByte(utf8_data[k])
          /\ IsSpaceOrPunctByte(utf8_data[k - 1])

====
